---- MODULE Spec2Model ----
(***************************************************************************)
(* DistyVault: backend/summarize.py, backend/prompts.py and                *)
(* backend/llm/ollama_runner.py.                                           *)
(*                                                                         *)
(* A Python str is modelled as a sequence of Unicode code points, a bytes  *)
(* object as a sequence of integers 0..255.  The program is one straight   *)
(* line of steps; pc is the position in it.  The environment is the        *)
(* command line, the file system, the locale's text encoding and the       *)
(* executable that `ollama` resolves to on the search path.                *)
(***************************************************************************)
EXTENDS Integers, Sequences, FiniteSets

(* ------------------------------ bounds -------------------------------- *)

\* Longest short text handed to summarize_text by an importing caller.
MaxText == 2
\* Longest tail that follows the padding of a long text.
MaxTail == 1
\* Longest short input file, in bytes.
MaxFile == 1
\* Most command-line arguments after the script name.
MaxArgs == 2

(* --------------------------- program constants ------------------------ *)

\* summarize.py line 7: raw_text[:5000]
MAX_CHARS == 5000

\* prompts.py lines 3-20: the template, as code points.
DENSE_SUMMARY_PROMPT == <<
    10, 89, 111, 117, 32, 97, 114, 101, 32, 97, 32, 98, 114, 105, 108, 108,
    105, 97, 110, 116, 32, 116, 101, 99, 104, 110, 105, 99, 97, 108, 32, 101,
    120, 112, 108, 97, 105, 110, 101, 114, 46, 10, 10, 89, 111, 117, 114, 32,
    103, 111, 97, 108, 32, 105, 115, 32, 116, 111, 32, 101, 120, 116, 114,
    97, 99, 116, 32, 97, 110, 100, 32, 114, 101, 111, 114, 103, 97, 110, 105,
    122, 101, 32, 42, 42, 100, 101, 101, 112, 32, 107, 110, 111, 119, 108,
    101, 100, 103, 101, 42, 42, 32, 102, 114, 111, 109, 32, 116, 104, 101,
    32, 112, 114, 111, 118, 105, 100, 101, 100, 32, 116, 101, 120, 116, 44,
    32, 116, 104, 101, 110, 32, 119, 114, 105, 116, 101, 32, 97, 32, 42, 42,
    100, 101, 110, 115, 101, 44, 32, 99, 111, 109, 112, 108, 101, 116, 101,
    32, 115, 117, 109, 109, 97, 114, 121, 42, 42, 32, 116, 104, 97, 116, 58,
    10, 10, 45, 32, 67, 111, 109, 112, 114, 101, 115, 115, 101, 115, 32, 116,
    104, 101, 32, 107, 101, 121, 32, 105, 100, 101, 97, 115, 32, 119, 105,
    116, 104, 32, 99, 108, 97, 114, 105, 116, 121, 32, 97, 110, 100, 32, 115,
    116, 114, 117, 99, 116, 117, 114, 101, 10, 45, 32, 67, 111, 118, 101,
    114, 115, 32, 101, 118, 101, 114, 121, 116, 104, 105, 110, 103, 32, 115,
    97, 105, 100, 44, 32, 98, 117, 116, 32, 114, 101, 109, 111, 118, 101,
    115, 32, 114, 101, 112, 101, 116, 105, 116, 105, 111, 110, 32, 97, 110,
    100, 32, 102, 108, 117, 102, 102, 10, 45, 32, 70, 105, 108, 108, 115, 32,
    105, 110, 32, 97, 110, 121, 32, 109, 105, 115, 115, 105, 110, 103, 32,
    108, 111, 103, 105, 99, 97, 108, 32, 103, 97, 112, 115, 32, 117, 115,
    105, 110, 103, 32, 121, 111, 117, 114, 32, 111, 119, 110, 32, 107, 110,
    111, 119, 108, 101, 100, 103, 101, 10, 45, 32, 72, 105, 103, 104, 108,
    105, 103, 104, 116, 115, 32, 99, 111, 110, 99, 101, 112, 116, 115, 44,
    32, 112, 114, 111, 99, 101, 115, 115, 101, 115, 44, 32, 99, 97, 117, 115,
    101, 45, 101, 102, 102, 101, 99, 116, 44, 32, 97, 110, 100, 32, 115, 116,
    114, 117, 99, 116, 117, 114, 101, 10, 45, 32, 85, 115, 101, 115, 32, 115,
    109, 97, 114, 116, 32, 108, 97, 110, 103, 117, 97, 103, 101, 44, 32, 119,
    105, 116, 104, 111, 117, 116, 32, 111, 118, 101, 114, 119, 104, 101, 108,
    109, 105, 110, 103, 32, 106, 97, 114, 103, 111, 110, 10, 10, 9888, 65039,
    32, 84, 104, 101, 32, 115, 117, 109, 109, 97, 114, 121, 32, 115, 104,
    111, 117, 108, 100, 32, 42, 42, 102, 101, 101, 108, 32, 108, 105, 107,
    101, 32, 104, 105, 103, 104, 45, 108, 101, 118, 101, 108, 32, 110, 111,
    116, 101, 115, 32, 119, 114, 105, 116, 116, 101, 110, 32, 98, 121, 32,
    97, 32, 100, 111, 109, 97, 105, 110, 32, 101, 120, 112, 101, 114, 116,
    32, 102, 111, 114, 32, 102, 97, 115, 116, 32, 108, 101, 97, 114, 110,
    105, 110, 103, 42, 42, 32, 8212, 32, 101, 118, 101, 114, 121, 32, 115,
    101, 110, 116, 101, 110, 99, 101, 32, 115, 104, 111, 117, 108, 100, 32,
    116, 101, 97, 99, 104, 32, 115, 111, 109, 101, 116, 104, 105, 110, 103,
    32, 101, 115, 115, 101, 110, 116, 105, 97, 108, 46, 10, 10, 85, 115, 101,
    32, 99, 108, 101, 97, 114, 32, 115, 101, 99, 116, 105, 111, 110, 115, 44,
    32, 98, 117, 108, 108, 101, 116, 32, 112, 111, 105, 110, 116, 115, 32,
    111, 114, 32, 104, 101, 97, 100, 101, 114, 115, 32, 119, 104, 101, 114,
    101, 32, 104, 101, 108, 112, 102, 117, 108, 46, 32, 68, 111, 110, 39,
    116, 32, 114, 101, 102, 101, 114, 101, 110, 99, 101, 32, 116, 104, 101,
    32, 111, 114, 105, 103, 105, 110, 97, 108, 32, 116, 101, 120, 116, 44,
    32, 106, 117, 115, 116, 32, 100, 101, 108, 105, 118, 101, 114, 32, 100,
    105, 115, 116, 105, 108, 108, 101, 100, 32, 105, 110, 115, 105, 103, 104,
    116, 46, 10, 10, 84, 69, 88, 84, 58, 10, 123, 116, 101, 120, 116, 125, 10 >>

\* "{" and "}" as str.format reads them, and the field name "text".
LBRACE == 123
RBRACE == 125
FIELD_text == <<116, 101, 120, 116>>

(* ------------------------------ helpers ------------------------------- *)

Min(S) == CHOOSE x \in S : \A y \in S : x <= y
Rep(c, n) == [i \in 1..n |-> c]
SeqsUpTo(A, n) == UNION {[1..k -> A] : k \in 0..n}

\* The outcome of an operation that either returns a value or raises.
Ok(v) == [ok |-> TRUE, val |-> v]
Raise == [ok |-> FALSE, val |-> <<>>]
Join(l, r) == IF l.ok /\ r.ok THEN Ok(l.val \o r.val) ELSE Raise

(* ------------------- raw_text[:5000]  (summarize.py:7) ---------------- *)

\* A Python slice s[:stop] with stop >= 0: the stop is clamped to len(s).
SliceOffByOne(s, stop) == SubSeq(s, 1, IF stop + 1 > Len(s) THEN Len(s) ELSE stop + 1)
Slice(s, stop) == SubSeq(s, 1, IF stop > Len(s) THEN Len(s) ELSE stop)

(* ---------------- DENSE_SUMMARY_PROMPT.format(text=...) --------------- *)

\* str.format: literal text is copied, "{{" and "}}" stand for one brace,
\* "{name}" is replaced by the keyword argument of that name, and the
\* replacement is not scanned again.  A lone "}", an unclosed "{" or a
\* field other than the one keyword given raises.
RECURSIVE FormatFrom(_, _, _)
FormatFrom(tpl, k, text) ==
    LET B == {i \in k..Len(tpl) : tpl[i] \in {LBRACE, RBRACE}} IN
    IF B = {} THEN Ok(SubSeq(tpl, k, Len(tpl)))
    ELSE LET i == Min(B)
             lit == SubSeq(tpl, k, i - 1)
             doubled == i < Len(tpl) /\ tpl[i + 1] = tpl[i]
             E == {j \in i + 1..Len(tpl) : tpl[j] = RBRACE}
         IN  IF doubled
             THEN Join(Ok(lit \o <<tpl[i]>>), FormatFrom(tpl, i + 2, text))
             ELSE IF tpl[i] = RBRACE \/ E = {} THEN Raise
             ELSE IF SubSeq(tpl, i + 1, Min(E) - 1) # FIELD_text THEN Raise
             ELSE Join(Ok(lit \o text), FormatFrom(tpl, Min(E) + 1, text))

FormatDropsTail(tpl, text) ==
    LET i == Min({j \in 1..Len(tpl) : tpl[j] = LBRACE})
    IN  Ok(SubSeq(tpl, 1, i - 1) \o text)
Format(tpl, text) == FormatFrom(tpl, 1, text)

(* ------------------------------ codecs -------------------------------- *)

IsSurrogate(c) == c >= 55296 /\ c <= 57343
IsCont(b) == b >= 128 /\ b <= 191

\* The element that marks a character no codec could convert.
BAD == -1

\* One code point as UTF-8; a surrogate cannot be encoded (strict errors).
EncodeCharReplace(c) == IF c < 128 THEN <<c>> ELSE <<63>>
EncodeChar(c) ==
    IF c < 128 THEN <<c>>
    ELSE IF c < 2048 THEN <<192 + (c \div 64), 128 + (c % 64)>>
    ELSE IF IsSurrogate(c) THEN <<BAD>>
    ELSE IF c < 65536
         THEN <<224 + (c \div 4096), 128 + ((c \div 64) % 64), 128 + (c % 64)>>
    ELSE <<240 + (c \div 262144), 128 + ((c \div 4096) % 64),
           128 + ((c \div 64) % 64), 128 + (c % 64)>>

\* The encodings of the characters of s, in order.
RECURSIVE EncodeAll(_)
EncodeAll(s) ==
    IF Len(s) = 0 THEN <<>>
    ELSE IF Len(s) = 1 THEN EncodeChar(s[1])
    ELSE EncodeAll(SubSeq(s, 1, Len(s) \div 2))
         \o EncodeAll(SubSeq(s, Len(s) \div 2 + 1, Len(s)))

\* str.encode("utf-8"): it raises UnicodeEncodeError when any character
\* cannot be encoded, and then returns nothing.
EncodeUTF8(s) ==
    LET b == EncodeAll(s) IN
    IF \E i \in DOMAIN b : b[i] = BAD THEN Raise ELSE Ok(b)

\* How many bytes the character starting with lead byte b takes; 0 when b
\* cannot start a character.
CharLen(b) ==
    IF b < 128 THEN 1
    ELSE IF b >= 192 /\ b <= 223 THEN 2
    ELSE IF b >= 224 /\ b <= 239 THEN 3
    ELSE IF b >= 240 /\ b <= 247 THEN 4
    ELSE 0

\* The code point of one complete character b: continuation bytes must
\* follow the lead byte, and overlong forms, surrogates and values above
\* U+10FFFF are rejected.
DecodeChar(b) ==
    LET n == CharLen(b[1]) IN
    IF n = 0 \/ n # Len(b) \/ \E i \in 2..Len(b) : ~IsCont(b[i]) THEN <<BAD>>
    ELSE LET c == IF n = 1 THEN b[1]
                  ELSE IF n = 2 THEN (b[1] - 192) * 64 + (b[2] - 128)
                  ELSE IF n = 3 THEN (b[1] - 224) * 4096 + (b[2] - 128) * 64
                                     + (b[3] - 128)
                  ELSE (b[1] - 240) * 262144 + (b[2] - 128) * 4096
                       + (b[3] - 128) * 64 + (b[4] - 128)
             least == IF n = 1 THEN 0 ELSE IF n = 2 THEN 128
                      ELSE IF n = 3 THEN 2048 ELSE 65536
         IN  IF c < least \/ IsSurrogate(c) \/ c > 1114111 THEN <<BAD>>
             ELSE <<c>>

\* The characters of a short input, one after the other.
RECURSIVE DecodeRun(_)
DecodeRun(b) ==
    IF b = <<>> THEN <<>>
    ELSE IF CharLen(b[1]) = 0 \/ CharLen(b[1]) > Len(b) THEN <<BAD>>
    ELSE DecodeChar(SubSeq(b, 1, CharLen(b[1])))
         \o DecodeRun(SubSeq(b, CharLen(b[1]) + 1, Len(b)))

\* The characters of b, in order.  A long input is cut at a character
\* boundary near its middle (a byte that is not a continuation byte);
\* four continuation bytes in a row belong to no character.
RECURSIVE DecodeAll(_)
DecodeAll(b) ==
    IF Len(b) < 8 THEN DecodeRun(b)
    ELSE LET mid == Len(b) \div 2
             C == {p \in mid + 1..mid + 4 : ~IsCont(b[p])}
         IN  IF C = {} THEN <<BAD>>
             ELSE DecodeAll(SubSeq(b, 1, Min(C) - 1))
                  \o DecodeAll(SubSeq(b, Min(C), Len(b)))

\* bytes.decode("utf-8"), strict: it raises UnicodeDecodeError when any
\* byte belongs to no character, and then returns nothing.
DecodeIgnore(b) == Ok(SelectSeq(b, LAMBDA x : x < 128))
DecodeUTF8(b) ==
    LET c == DecodeAll(b) IN
    IF \E i \in DOMAIN c : c[i] = BAD THEN Raise ELSE Ok(c)

\* Latin-1: byte n is code point n; code points above 255 have no byte.
DecodeLatin1(b) == Ok(b)
EncodeLatin1(s) == IF \A i \in 1..Len(s) : s[i] < 256 THEN Ok(s) ELSE Raise

Decode(b, enc) == IF enc = "utf-8" THEN DecodeUTF8(b) ELSE DecodeLatin1(b)
Encode(s, enc) == IF enc = "utf-8" THEN EncodeUTF8(s) ELSE EncodeLatin1(s)

\* Universal newlines of a text-mode read: "\r\n" and "\r" become "\n".
CR == 13
LF == 10
TranslateNewlines(s) ==
    LET keep == SelectSeq([i \in 1..Len(s) |-> i],
                          LAMBDA i : ~(s[i] = LF /\ i > 1 /\ s[i - 1] = CR))
    IN  [k \in 1..Len(keep) |-> IF s[keep[k]] = CR THEN LF ELSE s[keep[k]]]

\* f.read() of a file opened with open(path, "r"): the bytes decoded with
\* the locale's encoding (strict), then newline translation.
ReadText(b, enc) ==
    LET d == Decode(b, enc) IN
    IF d.ok THEN Ok(TranslateNewlines(d.val)) ELSE Raise

(* --------------------------- the environment -------------------------- *)

\* The one file that exists; every other path is missing.
INPUT_PATH == "in.txt"
Paths == {INPUT_PATH, "missing.txt"}

\* sys.argv: the script name, then up to MaxArgs arguments.
Argvs == {<<"summarize.py">> \o a : a \in SeqsUpTo(Paths, MaxArgs)}

\* Bytes an input file is made of: "a", CR, LF, and the two bytes of
\* U+00E9, each of which alone is not valid UTF-8.
FileBytes == {97, 13, 10, 195, 169}
\* Input files: every short one, U+00E9 in UTF-8, CR LF, "hello", and
\* 6000 times "a".
Files == SeqsUpTo(FileBytes, MaxFile)
         \cup {<<195, 169>>, <<13, 10>>, <<104, 101, 108, 108, 111>>,
               Rep(97, MAX_CHARS + 1000)}

\* Characters of a text handed to summarize_text: "a", "{", "}", the euro
\* sign and a lone surrogate (a str may hold one; UTF-8 cannot).
TextChars == {97, LBRACE, RBRACE, 8364, 55296}
\* Long texts: padding up to the limit, then a short tail.
LongTexts == {Rep(97, n) \o t : n \in {MAX_CHARS - 1, MAX_CHARS + 1000},
                                t \in SeqsUpTo({97, 8364, 55296}, MaxTail)}
\* Texts: every short one, "hello", "{text}", and the long ones.
Texts == SeqsUpTo(TextChars, MaxText)
         \cup {<<104, 101, 108, 108, 111>>, <<LBRACE>> \o FIELD_text \o <<RBRACE>>}
         \cup LongTexts

\* The locale's preferred encoding: open() and sys.stdout use it.
Encodings == {"utf-8", "latin-1"}

\* What `ollama` resolves to on the search path: nothing, or a program
\* that copies its input to its output, writes nothing, writes "ok\n",
\* or writes bytes that are not UTF-8.
Stubs == {"missing", "echo", "silent", "fixed", "invalid"}
FIXED_OUTPUT == <<111, 107, 10>>
INVALID_OUTPUT == <<111, 107, 255>>
StubOutput(kind, input) ==
    IF kind = "echo" THEN input
    ELSE IF kind = "silent" THEN <<>>
    ELSE IF kind = "fixed" THEN FIXED_OUTPUT
    ELSE INVALID_OUTPUT
ExitCodes == {0, 1}

\* A variable that is not bound yet.
None == <<-1>>

(* ------------------------------- state -------------------------------- *)

VARIABLES
    entry,       \* "main": run as a script; "import": a caller imports the module
    argv,        \* sys.argv
    file,        \* the bytes of INPUT_PATH
    encoding,    \* the locale's preferred encoding
    ollama,      \* the executable behind `ollama`
    callArg,     \* the text an importing caller passes to summarize_text
    pc,          \* the program's position
    path,        \* sys.argv[1]
    raw,         \* summarize.py:14
    raw_text,    \* summarize_text's parameter
    text,        \* raw_text[:5000], the argument of format
    prompt,      \* summarize.py:7
    stdin,       \* prompt.encode("utf-8"), the process's input
    proc,        \* "none", "notfound", "running", "exited"
    returncode,  \* the process's exit status
    stdout,      \* the bytes captured from the process
    summary,     \* summarize.py:8, the runner's return value
    result,      \* summarize_text's return value
    printed,     \* the text written to sys.stdout
    err,         \* the exception that ended the program, "" when none
    trace        \* the steps taken so far, in order

envVars == <<entry, argv, file, encoding, ollama, callArg>>
dataVars == <<path, raw, raw_text, text, prompt, stdin, summary, result, printed>>
procVars == <<proc, returncode, stdout>>
vars == <<envVars, dataVars, procVars, pc, err, trace>>

Init ==
    /\ \/ /\ entry = "main"
          /\ argv \in Argvs
          /\ file \in Files
          /\ encoding \in Encodings
          /\ callArg = None
       \/ /\ entry = "import"
          /\ argv = <<>>
          /\ file = <<>>
          /\ encoding = "utf-8"
          /\ callArg \in Texts
    /\ ollama \in Stubs
    /\ pc = "start"
    /\ path = ""
    /\ raw = None /\ raw_text = None /\ text = None /\ prompt = None
    /\ stdin = None /\ summary = None /\ result = None
    /\ printed = <<>>
    /\ proc = "none" /\ returncode = -1 /\ stdout = None
    /\ err = ""
    /\ trace = <<>>

\* An exception nobody catches ends the program.
Fail(e) == pc' = "error" /\ err' = e

(* ------------------------ summarize.py, __main__ ---------------------- *)

\* summarize.py:13, sys.argv[1]
MainArgvChecked ==
    /\ entry = "main" /\ pc = "start"
    /\ IF Len(argv) # 2
       THEN Fail("IndexError") /\ UNCHANGED path
       ELSE path' = argv[2] /\ pc' = "open" /\ UNCHANGED err
    /\ UNCHANGED <<envVars, raw, raw_text, text, prompt, stdin, summary, result,
                   printed, procVars, trace>>
MainArgv ==
    /\ entry = "main" /\ pc = "start"
    /\ IF Len(argv) < 2
       THEN Fail("IndexError") /\ UNCHANGED path
       ELSE path' = argv[2] /\ pc' = "open" /\ UNCHANGED err
    /\ UNCHANGED <<envVars, raw, raw_text, text, prompt, stdin, summary, result,
                   printed, procVars, trace>>

\* summarize.py:13, open(path, "r")
OpenFileCreates ==
    /\ pc = "open"
    /\ pc' = "read" /\ trace' = Append(trace, "open") /\ UNCHANGED err
    /\ UNCHANGED <<envVars, dataVars, procVars>>
OpenFile ==
    /\ pc = "open"
    /\ IF path # INPUT_PATH
       THEN Fail("FileNotFoundError") /\ UNCHANGED trace
       ELSE pc' = "read" /\ trace' = Append(trace, "open") /\ UNCHANGED err
    /\ UNCHANGED <<envVars, dataVars, procVars>>

\* summarize.py:14, raw = f.read()
ReadFile ==
    /\ pc = "read"
    /\ LET r == ReadText(file, encoding) IN
       IF ~r.ok
       THEN Fail("UnicodeDecodeError") /\ UNCHANGED <<raw, trace>>
       ELSE raw' = r.val /\ pc' = "call" /\ trace' = Append(trace, "read")
            /\ UNCHANGED err
    /\ UNCHANGED <<envVars, path, raw_text, text, prompt, stdin, summary, result,
                   printed, procVars>>

\* summarize.py:15, summarize_text(raw)
CallFromMain ==
    /\ pc = "call"
    /\ raw_text' = raw /\ pc' = "slice"
    /\ UNCHANGED <<envVars, path, raw, text, prompt, stdin, summary, result,
                   printed, procVars, err, trace>>

\* summarize.py:6, summarize_text called by a module that imported it
CallFromImporter ==
    /\ entry = "import" /\ pc = "start"
    /\ raw_text' = callArg /\ pc' = "slice"
    /\ UNCHANGED <<envVars, path, raw, text, prompt, stdin, summary, result,
                   printed, procVars, err, trace>>

(* ----------------------- summarize.py, summarize_text ----------------- *)

\* summarize.py:7, raw_text[:5000]
Truncate ==
    /\ pc = "slice"
    /\ text' = Slice(raw_text, MAX_CHARS)
    /\ pc' = "format" /\ trace' = Append(trace, "truncate")
    /\ UNCHANGED <<envVars, path, raw, raw_text, prompt, stdin, summary, result,
                   printed, procVars, err>>

\* summarize.py:7, DENSE_SUMMARY_PROMPT.format(text=...)
Substitute ==
    /\ pc = "format"
    /\ LET f == Format(DENSE_SUMMARY_PROMPT, text) IN
       IF ~f.ok
       THEN Fail("ValueError") /\ UNCHANGED <<prompt, trace>>
       ELSE prompt' = f.val /\ pc' = "encode"
            /\ trace' = Append(trace, "format") /\ UNCHANGED err
    /\ UNCHANGED <<envVars, path, raw, raw_text, text, stdin, summary, result,
                   printed, procVars>>

(* -------------------- ollama_runner.py, run_ollama_prompt ------------- *)

\* ollama_runner.py:9, prompt.encode("utf-8")
EncodePrompt ==
    /\ pc = "encode"
    /\ LET e == EncodeUTF8(prompt) IN
       IF ~e.ok
       THEN Fail("UnicodeEncodeError") /\ UNCHANGED stdin
       ELSE stdin' = e.val /\ pc' = "spawn" /\ UNCHANGED err
    /\ UNCHANGED <<envVars, path, raw, raw_text, text, prompt, summary, result,
                   printed, procVars, trace>>

\* ollama_runner.py:7-8, subprocess.run starts ["ollama", "run", model]
SpawnRetrying ==
    /\ pc = "spawn" \/ (pc = "decode" /\ returncode # 0 /\ Len(trace) < 8)
    /\ IF ollama = "missing"
       THEN proc' = "notfound" /\ Fail("FileNotFoundError") /\ UNCHANGED trace
       ELSE proc' = "running" /\ pc' = "wait"
            /\ trace' = Append(trace, "spawn") /\ UNCHANGED err
    /\ UNCHANGED <<envVars, dataVars, returncode, stdout>>
SpawnSilent ==
    /\ pc = "spawn"
    /\ IF ollama = "missing"
       THEN proc' = "exited" /\ returncode' = 127 /\ stdout' = <<>>
            /\ pc' = "wait" /\ UNCHANGED <<err, trace>>
       ELSE proc' = "running" /\ pc' = "wait"
            /\ trace' = Append(trace, "spawn") /\ UNCHANGED <<err, returncode, stdout>>
    /\ UNCHANGED <<envVars, dataVars>>
Spawn ==
    /\ pc = "spawn"
    /\ IF ollama = "missing"
       THEN proc' = "notfound" /\ Fail("FileNotFoundError") /\ UNCHANGED trace
       ELSE proc' = "running" /\ pc' = "wait"
            /\ trace' = Append(trace, "spawn") /\ UNCHANGED err
    /\ UNCHANGED <<envVars, dataVars, returncode, stdout>>

\* The external process reads its input, writes its output and exits
\* with some status; nothing makes it do so.
ProcExit ==
    /\ proc = "running"
    /\ \E rc \in ExitCodes : returncode' = rc
    /\ stdout' = StubOutput(ollama, stdin)
    /\ proc' = "exited" /\ trace' = Append(trace, "exit")
    /\ UNCHANGED <<envVars, dataVars, pc, err>>

\* ollama_runner.py:7-11, subprocess.run returns once the process has
\* exited; neither timeout= nor check= is given.
WaitChecked ==
    /\ pc = "wait" /\ proc = "exited"
    /\ IF returncode # 0
       THEN Fail("CalledProcessError")
       ELSE pc' = "decode" /\ UNCHANGED err
    /\ UNCHANGED <<envVars, dataVars, procVars, trace>>
WaitTimeout ==
    /\ pc = "wait"
    /\ IF proc = "exited"
       THEN pc' = "decode" /\ UNCHANGED err
       ELSE Fail("TimeoutExpired")
    /\ UNCHANGED <<envVars, dataVars, procVars, trace>>
Wait ==
    /\ pc = "wait" /\ proc = "exited"
    /\ pc' = "decode"
    /\ UNCHANGED <<envVars, dataVars, procVars, err, trace>>

\* ollama_runner.py:12, result.stdout.decode("utf-8")
DecodeOutput ==
    /\ pc = "decode"
    /\ LET d == DecodeUTF8(stdout) IN
       IF ~d.ok
       THEN Fail("UnicodeDecodeError") /\ UNCHANGED summary
       ELSE summary' = d.val /\ pc' = "return" /\ UNCHANGED err
    /\ UNCHANGED <<envVars, path, raw, raw_text, text, prompt, stdin, result,
                   printed, procVars, trace>>

\* summarize.py:9 and 15, return summary; result = ...
Return ==
    /\ pc = "return"
    /\ result' = summary
    /\ pc' = IF entry = "main" THEN "print" ELSE "done"
    /\ UNCHANGED <<envVars, path, raw, raw_text, text, prompt, stdin, summary,
                   printed, procVars, err, trace>>

\* summarize.py:16, print(result): sys.stdout encodes with the locale's
\* encoding, strict.
PrintResult ==
    /\ pc = "print"
    /\ IF ~Encode(result \o <<LF>>, encoding).ok
       THEN Fail("UnicodeEncodeError") /\ UNCHANGED <<printed, trace>>
       ELSE printed' = result \o <<LF>> /\ pc' = "done"
            /\ trace' = Append(trace, "print") /\ UNCHANGED err
    /\ UNCHANGED <<envVars, path, raw, raw_text, text, prompt, stdin, summary,
                   result, procVars>>

\* The program's own steps, which run one after the other.
Program ==
    \/ MainArgv \/ OpenFile \/ ReadFile \/ CallFromMain \/ CallFromImporter
    \/ Truncate \/ Substitute \/ EncodePrompt \/ Spawn \/ Wait
    \/ DecodeOutput \/ Return \/ PrintResult

Next == Program \/ ProcExit

Spec == Init /\ [][Next]_vars

\* The program has a step to take: it has not ended, and it is not
\* blocked in subprocess.run waiting for the process.  This is
\* ENABLED <<Program>>_vars: every step of the program changes pc.
Ready == pc \notin {"done", "error"} /\ (pc = "wait" => proc = "exited")

\* The interpreter keeps running the program while it has a step to take;
\* the external process owes nothing.  This is WF_vars(Program), written
\* out with Ready for ENABLED <<Program>>_vars.
FairSpec == Spec /\ ([]<>~Ready \/ []<><<Program>>_vars)

(* ============================ the claims ============================== *)

\* The template around its slot, found by looking for the text "{text}".
SLOT == <<LBRACE>> \o FIELD_text \o <<RBRACE>>
SlotAt == CHOOSE p \in 1..Len(DENSE_SUMMARY_PROMPT) - 5 :
              SubSeq(DENSE_SUMMARY_PROMPT, p, p + 5) = SLOT
TemplateBefore == SubSeq(DENSE_SUMMARY_PROMPT, 1, SlotAt - 1)
TemplateAfter == SubSeq(DENSE_SUMMARY_PROMPT, SlotAt + 6, Len(DENSE_SUMMARY_PROMPT))

\* The first min(len(s), 5000) characters of s, position by position.
First5000(s) == [i \in 1..(IF Len(s) < 5000 THEN Len(s) ELSE 5000) |-> s[i]]

\* Well-formed UTF-8 as the Unicode standard tabulates it (table 3-7):
\* every byte is a lead byte followed by the right number of continuation
\* bytes, or one of those continuation bytes; the second byte's range is
\* narrowed after E0, ED, F0 and F4.
LeadOk(b, i) ==
    LET n == IF b[i] < 128 THEN 1
             ELSE IF b[i] >= 194 /\ b[i] <= 223 THEN 2
             ELSE IF b[i] >= 224 /\ b[i] <= 239 THEN 3
             ELSE IF b[i] >= 240 /\ b[i] <= 244 THEN 4
             ELSE 0
    IN  /\ n > 0
        /\ i + n - 1 <= Len(b)
        /\ \A j \in i + 1..i + n - 1 : b[j] >= 128 /\ b[j] <= 191
        /\ b[i] = 224 => b[i + 1] >= 160
        /\ b[i] = 237 => b[i + 1] <= 159
        /\ b[i] = 240 => b[i + 1] >= 144
        /\ b[i] = 244 => b[i + 1] <= 143
ContOk(b, i) ==
    \E j \in {i - 3, i - 2, i - 1} \cap DOMAIN b :
        /\ b[j] >= 192
        /\ \A k \in j + 1..i : b[k] >= 128 /\ b[k] <= 191
        /\ (b[j] <= 223 => i - j <= 1) /\ (b[j] <= 239 => i - j <= 2)
WellFormedUTF8(b) ==
    \A i \in DOMAIN b :
        \/ b[i] < 128
        \/ IF b[i] >= 128 /\ b[i] <= 191 THEN ContOk(b, i) ELSE LeadOk(b, i)
HasSurrogate(s) == \E i \in DOMAIN s : s[i] >= 55296 /\ s[i] <= 57343

\* The program's own steps in the trace, without the process's exit.
ProgramTrace == SelectSeq(trace, LAMBDA e : e # "exit")
IsPrefix(s, t) == Len(s) <= Len(t) /\ SubSeq(t, 1, Len(s)) = s
Count(s, e) == Cardinality({i \in DOMAIN s : s[i] = e})

\* C1: the text substituted into the template is the first
\* min(len(raw_text), 5000) characters of raw_text: unchanged up to 5000
\* characters, cut to exactly 5000 beyond, and 6000 times "a" contributes
\* exactly 5000 "a".
C1_Truncation ==
    text # None =>
        /\ Len(text) = (IF Len(raw_text) < 5000 THEN Len(raw_text) ELSE 5000)
        /\ \A i \in 1..Len(text) : text[i] = raw_text[i]
        /\ Len(raw_text) <= 5000 => text = raw_text
        /\ Len(text) <= 5000
        /\ raw_text = Rep(97, 6000) => Count(text, 97) = 5000
C1_Witness == text # None /\ raw_text = Rep(97, 6000) /\ Len(text) = 5000

\* C2: the prompt is the template's text before the slot, the truncated
\* text verbatim, and the template's text after the slot, also when the
\* text holds braces or "{text}" itself.
C2_PromptShape ==
    prompt # None => prompt = TemplateBefore \o text \o TemplateAfter
C2_Witness == prompt # None /\ text = SLOT /\ pc = "done"

\* C3: the exit status never changes the returned value: once the process
\* has exited, the runner returns the decoded output whatever the status,
\* and with nothing written it returns "" and nothing raises.
C3_ExitStatusIgnored ==
    /\ (proc = "exited" /\ pc \notin {"wait", "decode"}) =>
          IF WellFormedUTF8(stdout)
          THEN Ok(summary) = DecodeUTF8(stdout) /\ err # "UnicodeDecodeError"
          ELSE pc = "error" /\ err = "UnicodeDecodeError"
    /\ (proc = "exited" /\ stdout = <<>>) =>
          /\ err = "" /\ pc # "error"
          /\ pc \notin {"wait", "decode"} => summary = <<>>
          /\ pc \in {"print", "done"} => result = <<>>
C3_Witness ==
    /\ entry = "import" /\ pc = "done" /\ returncode = 1
    /\ stdout = <<>> /\ result = <<>> /\ err = ""

\* C4 as claimed: with the executable missing the runner stays silent, it
\* raises nothing.
C4_SilentWhenMissing == ~(ollama = "missing" /\ stdin # None /\ pc = "error")
\* C4 as amended: with the executable missing, starting the process raises
\* FileNotFoundError, which nobody catches: nothing is returned or printed.
C4_MissingRaises ==
    (ollama = "missing" /\ stdin # None /\ pc # "spawn") =>
        /\ pc = "error" /\ err = "FileNotFoundError"
        /\ proc = "notfound" /\ stdout = None
        /\ summary = None /\ result = None /\ printed = <<>>
        /\ Count(trace, "spawn") = 0
C4_Witness == ollama = "missing" /\ proc = "notfound" /\ pc = "error"

\* C5 as claimed: with a process that copies its input to its output,
\* summarize_text(t) returns the prompt built from t, for every text t.
C5_EchoReturnsPromptAlways ==
    (ollama = "echo" /\ raw_text # None) =>
        /\ result # None =>
              result = TemplateBefore \o First5000(raw_text) \o TemplateAfter
        /\ ~(pc = "error" /\ result = None)
\* C5 as amended: summarize_text returns what the runner returned, and with
\* a process that copies its input to its output that is the prompt built
\* from t, for every t whose first 5000 characters hold no lone surrogate.
C5_EchoReturnsPrompt ==
    /\ result # None => result = summary
    /\ (ollama = "echo" /\ raw_text # None /\ ~HasSurrogate(First5000(raw_text))) =>
          /\ result # None =>
                result = TemplateBefore \o First5000(raw_text) \o TemplateAfter
          /\ ~(pc = "error" /\ result = None)
C5_Witness ==
    /\ ollama = "echo" /\ entry = "import" /\ pc = "done"
    /\ raw_text = <<104, 101, 108, 108, 111>>
    /\ result = TemplateBefore \o <<104, 101, 108, 108, 111>> \o TemplateAfter

\* C6 as claimed: with any number of arguments other than one the entry
\* point is not accepted and the pipeline does not run.
C6_ExactlyOneArgument ==
    (entry = "main" /\ Len(argv) # 2) =>
        /\ pc \in {"start", "error"} /\ path = "" /\ trace = <<>>
\* C6 as amended: the entry point takes its first argument as the path and
\* ignores any further ones; with no argument it fails before opening a
\* file; it reads the file as text, hands the text to summarize_text and,
\* when it finishes, has printed the result.
C6_EntryPoint ==
    entry = "main" =>
        /\ Len(argv) < 2 =>
              /\ pc \in {"start", "error"} /\ path = "" /\ trace = <<>>
              /\ pc = "error" => err = "IndexError"
        /\ (Len(argv) >= 2 /\ pc # "start") => path = argv[2]
        /\ raw # None =>
              /\ path = INPUT_PATH
              /\ encoding = "utf-8" => WellFormedUTF8(file)
              /\ Len(raw) <= Len(file)
              /\ (\A i \in DOMAIN file : file[i] < 128 /\ file[i] # CR) => raw = file
        /\ raw_text # None => raw_text = raw
        /\ pc = "done" => printed = result \o <<LF>> /\ result = summary
        /\ pc # "done" => printed = <<>>
C6_Witness ==
    /\ entry = "main" /\ Len(argv) = 3 /\ pc = "done"
    /\ raw = <<104, 101, 108, 108, 111>> /\ printed = <<111, 107, 10, 10>>

\* C7: a missing input file ends the program in the failure raised by
\* open: no normal result, nothing printed.
C7_MissingFile ==
    (entry = "main" /\ Len(argv) >= 2 /\ argv[2] # INPUT_PATH
       /\ pc \notin {"start", "open"}) =>
        /\ pc = "error" /\ err = "FileNotFoundError"
        /\ printed = <<>> /\ raw = None /\ result = None
        /\ proc = "none" /\ trace = <<>>
C7_Witness ==
    /\ entry = "main" /\ path = "missing.txt"
    /\ pc = "error" /\ err = "FileNotFoundError"

\* C8: no timeout: the program gets past the wait only once the process
\* has exited, while the process runs the program stays in the wait (so a
\* process that never exits blocks it forever), and once the process has
\* exited the program terminates.
C8_NoTimeout ==
    /\ [](pc \in {"decode", "return", "print", "done"} => proc = "exited")
    /\ [][(pc = "wait" /\ proc = "running") => pc' = "wait"]_vars
    /\ [](proc = "exited" => <>(pc \in {"done", "error"}))
C8_Witness == pc = "done" /\ proc = "exited" /\ entry = "main" /\ printed # <<>>

C10_StepOrder ==
    /\ Count(trace, "spawn") <= 1
    /\ IsPrefix(ProgramTrace,
                IF entry = "main"
                THEN <<"open", "read", "truncate", "format", "spawn", "print">>
                ELSE <<"truncate", "format", "spawn">>)
    /\ (entry = "main" /\ proc # "none") =>
          raw # None /\ Count(trace, "read") = 1
    /\ (entry = "main" /\ raw = None) => Count(trace, "spawn") = 0
    /\ Count(trace, "print") = 1 =>
          /\ proc = "exited" /\ result # None
          /\ trace[Len(trace)] = "print" /\ trace[Len(trace) - 1] = "exit"
          /\ pc = "done"
C10_Witness ==
    /\ entry = "main" /\ pc = "done" /\ returncode = 1
    /\ trace = <<"open", "read", "truncate", "format", "spawn", "exit", "print">>
====
